---- MODULE Spec2Model ----
(***************************************************************************)
(* A state-machine model of the threejs-earth application: the runApp      *)
(* driver of src/src/core-utils.js (promise chain, frame loop, resize and  *)
(* pointer handlers) running the app object of src/src/index.js            *)
(* (initScene, updateScene, the onBeforeCompile shader patch), and of the   *)
(* utility functions hexToRgb and maintainBgAspect of                      *)
(* src/unnamed/part_000, each under a specification of its own.            *)
(*                                                                         *)
(* Units.  Time is counted in milliseconds.  Angles are counted in units   *)
(* of 1e-7 rad, so that interval * 0.005 * speedFactor, with the interval  *)
(* in ms and speedFactor in tenths (the GUI's step), is the integer        *)
(* interval * 5 * speedFactor.  The shadow offset uv_xOffset is a          *)
(* fraction of a turn; it is held as its numerator over TwoPi, so          *)
(* "offset % 1" is "numerator % TwoPi" and "< 1" is "< TwoPi".             *)
(* Arithmetic is exact: floating-point rounding is not modelled.           *)
(*                                                                         *)
(* JavaScript runs every task to completion and drains the promise         *)
(* reactions (microtasks) before the next task.  A synchronous function    *)
(* is modelled as a chain of steps which no task may interleave.           *)
(***************************************************************************)
EXTENDS Integers, Sequences, FiniteSets, TLC

\* ---------------------------------------------------------------- bounds
\* frames run in one behaviour
MaxFrames == 3
\* resize and pointer events delivered in one behaviour
MaxEvents == 2
\* recompilations of the earth material in one behaviour
MaxRecompiles == 1
\* calls of maintainBgAspect in one behaviour
MaxBgCalls == 2
\* pieces of text in a fragment shader source
MaxSourceLen == 5
\* compilations of one material
MaxCompiles == 2

\* ------------------------------------------------------ program constants
\* textures awaited one after another by initScene
NumTextures == 6
\* earth: interval * 0.005 * speedFactor
EarthRate == 5
\* clouds: interval * 0.01 * speedFactor
CloudsRate == 10
\* offset: (interval * 0.005 * speedFactor) / (2 * Math.PI)
OffsetRate == 5
\* 2 * Math.PI, in units of 1e-7 rad
TwoPi == 62831853
\* rotateY(-0.3), in units of 1e-7 rad
InitialRotation == -3000000
\* params.speedFactor: 2.0, in tenths
InitialSpeedFactor == 20

\* ------------------------------------------------------------ input sets
\* seconds since the previous frame, in ms: a 60 Hz frame, and two long
\* gaps (requestAnimationFrame is paused while the page is hidden)
Intervals == {16, 40000, 100000}
\* the GUI's "Rotation Speed" slider, 0.1 .. 20.0 in tenths
SpeedFactors == {1, 20, 200}
\* viewport sizes and device pixel ratios
Widths == {4, 6}
Heights == {2, 3}
PixelRatios == {1, 2}
\* pointer coordinates
Coords == {1, 7}
PointerKinds == {"mousemove", "touchmove"}

VARIABLES
    \* runApp's arguments
    enableAnimation, composer, touchSupported,
    \* the browser window
    window, listeners,
    \* the objects runApp is given
    camera, rendererSize, uniforms,
    \* app.initScene() and the promise chain of runApp
    initPromise, initAwait, awaited, loadInFlight, failedLoads,
    chainPc, veilOpacity, errorLog, infoLog,
    \* animate
    framePc, frameVia, pendingFrames, clock, delta,
    \* the scene built by initScene
    sceneBuilt, earthRot, cloudsRot, shader, speedFactor,
    \* history
    frameCount, frameOps, updateCalls, renderCalls, compiles, events,
    sumOffsets, lastMove, uncaught, lastTask, thrown,
    \* the utility functions of common-utils.js and the shader patch, each
    \* with the arguments and the result of its latest call
    bgCall, hexCall, patchCall

utilVars == <<bgCall, hexCall, patchCall>>
paramVars == <<enableAnimation, composer, touchSupported>>
eventVars == <<window, listeners, camera, rendererSize, lastMove, events,
               uncaught>>
startupVars == <<initPromise, initAwait, awaited, loadInFlight, failedLoads,
                 chainPc, veilOpacity, errorLog, infoLog>>
frameVars == <<framePc, frameVia, pendingFrames, clock, delta, frameCount>>
sceneVars == <<sceneBuilt, earthRot, cloudsRot, shader, speedFactor,
               updateCalls, compiles, sumOffsets>>
appVars == <<thrown, paramVars, eventVars, startupVars, frameVars, sceneVars,
            uniforms, frameOps, renderCalls, lastTask>>
vars == <<utilVars, appVars>>

\* ---------------------------------------------------------------- helpers
RECURSIVE Gcd(_, _)
Gcd(a, b) == IF b = 0 THEN a ELSE Gcd(b, a % b)

\* the quotient a / b of two positive numbers, as a fraction in lowest terms
Ratio(a, b) == <<a \div Gcd(a, b), b \div Gcd(a, b)>>

\* getDefaultUniforms(): u_time, u_mouse and u_resolution from the window
getDefaultUniforms(win) ==
    [u_time |-> 0,
     u_mouse |-> [x |-> 0, y |-> 0],
     u_resolution |-> [x |-> win.innerWidth * win.devicePixelRatio,
                       y |-> win.innerHeight * win.devicePixelRatio]]

\* a uniform bag supplied by the caller that has no u_resolution entry
BareUniforms == [u_time |-> 0, u_mouse |-> [x |-> 0, y |-> 0]]

\* createCamera(): aspect defaults to window.innerWidth / window.innerHeight
createCamera(win) == [aspect |-> Ratio(win.innerWidth, win.innerHeight)]

\* createRenderer(): renderer.setSize(window.innerWidth, window.innerHeight)
createRenderer(win) == <<win.innerWidth, win.innerHeight>>

\* faulty variant: mouse-move is listened to whatever the window supports
PointerKindMouseOnly(touch) == "mousemove"

\* the pointer event runApp listens to
PointerKind(touch) == IF touch THEN "touchmove" ELSE "mousemove"

\* the window before runApp is called
InitialWindow == [innerWidth |-> 4, innerHeight |-> 2, devicePixelRatio |-> 1]

\* no handle attached to earthMat.userData
NoShader == [attached |-> FALSE, uv_xOffset |-> 0]

\* no event of a kind seen yet
NoMove == [seen |-> FALSE, x |-> 0, y |-> 0]

\* ------------------------------------------------------------- scheduling
\* animate is a synchronous function: from its first statement to its
\* return the call stack is not empty, and no other task can start
StackEmpty == framePc = "idle"

\* a promise reaction is queued: the continuation of initScene after its
\* awaited promise settled, or the next handler of runApp's chain
MicrotaskQueued ==
    \/ initPromise = "pending" /\ awaited # "pending"
    \/ chainPc \in {"veil", "animate", "info", "catch"}

\* a task (an event, a timer, a loader callback, an animation frame) starts
\* only on an empty stack, after the microtasks are drained
TaskMayRun == StackEmpty /\ ~MicrotaskQueued

\* ------------------------------------------------------ app.initScene()
\* initScene awaits updateLoadingProgressBar(0.1), then for each texture
\* loadTexture and updateLoadingProgressBar, builds the scene, and awaits
\* updateLoadingProgressBar(1.0, 100)
NumAwaits == 2 * NumTextures + 2

AwaitKind(i) == IF i % 2 = 0 /\ i < NumAwaits THEN "load" ELSE "bar"

\* loadTexture(url): new Promise(resolve => loader.load(url, resolve)).
\* The loader is given no onError callback and the executor takes no
\* reject: a load that fails settles nothing.
loadTexture(ok) == IF ok THEN "fulfilled" ELSE "pending"

\* loadHDRI(url): the same shape, new Promise((resolve) => ...load(url, onLoad))
loadHDRI(ok) == IF ok THEN "fulfilled" ELSE "pending"

\* the loader an asset of initScene is requested through
Loader(i, ok) == loadTexture(ok)

\* faulty variant: the chain does not wait, the veil is hidden and animate
\* started while initScene is still pending
ChainOnInitNoWait(p) == IF p = "rejected" THEN "catch" ELSE "veil"

\* app.initScene().then(veil).then(animate).then(info).catch(log): the
\* handler of the chain that is queued once initScene's promise is p
ChainOnInit(p) ==
    CASE p = "fulfilled" -> "veil"
      [] p = "rejected" -> "catch"
      [] OTHER -> "init"

\* faulty variant: the catch placed before .then(animate), which goes on
\* to animate after logging
AfterCatchGoesOn == "animate"

\* .catch is the last link of the chain: nothing follows the log
AfterCatch == "logged"

\* updateLoadingProgressBar settles the promise initScene awaits
BarSettles ==
    /\ TaskMayRun
    /\ initPromise = "pending"
    /\ awaited = "pending"
    /\ AwaitKind(initAwait) = "bar"
    /\ awaited' = "fulfilled"
    /\ lastTask' = "bar"
    /\ UNCHANGED <<utilVars, thrown, paramVars, eventVars, frameVars, sceneVars, uniforms,
                   frameOps, renderCalls, initPromise, initAwait,
                   loadInFlight, failedLoads, chainPc, veilOpacity,
                   errorLog, infoLog>>

\* the texture loader finishes the load in flight, with or without success
LoaderCompletes(ok) ==
    /\ TaskMayRun
    /\ loadInFlight
    /\ loadInFlight' = FALSE
    /\ awaited' = Loader(initAwait, ok)
    /\ failedLoads' = failedLoads + (IF ok THEN 0 ELSE 1)
    /\ lastTask' = "loader"
    /\ UNCHANGED <<utilVars, thrown, paramVars, eventVars, frameVars, sceneVars, uniforms,
                   frameOps, renderCalls, initPromise, initAwait,
                   chainPc, veilOpacity, errorLog, infoLog>>

\* initScene continues after an await: it runs up to its next await, or to
\* its return, or raises (raise: a statement of the segment throws; a
\* rejected awaited promise is thrown by the await itself)
InitSceneResume(raise) ==
    /\ StackEmpty
    /\ initPromise = "pending"
    /\ awaited # "pending"
    /\ lastTask' = "initScene"
    /\ IF raise \/ awaited = "rejected"
       THEN /\ initPromise' = "rejected"
            /\ chainPc' = ChainOnInit("rejected")
            /\ UNCHANGED <<initAwait, awaited, loadInFlight, sceneBuilt,
                           earthRot, cloudsRot>>
       ELSE IF initAwait = NumAwaits
       THEN /\ initPromise' = "fulfilled"
            /\ chainPc' = ChainOnInit("fulfilled")
            /\ UNCHANGED <<initAwait, awaited, loadInFlight, sceneBuilt,
                           earthRot, cloudsRot>>
       ELSE /\ initAwait' = initAwait + 1
            /\ awaited' = "pending"
            /\ loadInFlight' = (AwaitKind(initAwait + 1) = "load")
            /\ chainPc' = ChainOnInit("pending")
            /\ UNCHANGED initPromise
            /\ IF initAwait + 1 = NumAwaits
               THEN \* the meshes are created and both are given rotateY(-0.3)
                    /\ sceneBuilt' = TRUE
                    /\ earthRot' = InitialRotation
                    /\ cloudsRot' = InitialRotation
               ELSE UNCHANGED <<sceneBuilt, earthRot, cloudsRot>>
    /\ UNCHANGED <<utilVars, thrown, paramVars, eventVars, frameVars, uniforms, frameOps,
                   renderCalls, failedLoads, veilOpacity, errorLog, infoLog,
                   shader, speedFactor, updateCalls, compiles, sumOffsets>>

\* .then(() => { veil.style.opacity = 0; return true })
ThenVeil ==
    /\ StackEmpty
    /\ chainPc = "veil"
    /\ veilOpacity' = 0
    /\ chainPc' = "animate"
    /\ lastTask' = "veil"
    /\ UNCHANGED <<utilVars, thrown, paramVars, eventVars, frameVars, sceneVars, uniforms,
                   frameOps, renderCalls, initPromise, initAwait, awaited,
                   loadInFlight, failedLoads, errorLog, infoLog>>

\* .then(() => { renderer.info.reset(); console.log("Renderer info", ...) })
ThenInfo ==
    /\ StackEmpty
    /\ chainPc = "info"
    /\ infoLog' = infoLog + 1
    /\ chainPc' = "done"
    /\ lastTask' = "info"
    /\ UNCHANGED <<utilVars, thrown, paramVars, eventVars, frameVars, sceneVars, uniforms,
                   frameOps, renderCalls, initPromise, initAwait, awaited,
                   loadInFlight, failedLoads, veilOpacity, errorLog>>

\* .catch((error) => { console.log(error) })
CatchLog ==
    /\ StackEmpty
    /\ chainPc = "catch"
    /\ errorLog' = errorLog + 1
    /\ chainPc' = AfterCatch
    /\ lastTask' = "catch"
    /\ UNCHANGED <<utilVars, thrown, paramVars, eventVars, frameVars, sceneVars, uniforms,
                   frameOps, renderCalls, initPromise, initAwait, awaited,
                   loadInFlight, failedLoads, veilOpacity, infoLog>>


\* ------------------------------------------------------ app.updateScene()
\* this.earth.rotateY(interval * 0.005 * params.speedFactor)
EarthStep(interval, sf) == interval * EarthRate * sf

\* faulty variant: the clouds turned at the earth's rate
CloudsStepSlow(interval, sf) == interval * EarthRate * sf

\* this.clouds.rotateY(interval * 0.01 * params.speedFactor)
CloudsStep(interval, sf) == interval * CloudsRate * sf

\* let offset = (interval * 0.005 * params.speedFactor) / (2 * Math.PI),
\* as a numerator over TwoPi
Offset(interval, sf) == interval * OffsetRate * sf

\* shader.uniforms.uv_xOffset.value += offset % 1
NextOffset(value, interval, sf) == value + (Offset(interval, sf) % TwoPi)

\* shader.uniforms.uv_xOffset.value += offset % 1: a read through a handle
\* that is undefined raises a TypeError
WriteOffset(sh, interval, sf) ==
    IF sh.attached
    THEN [shader |-> [sh EXCEPT !.uv_xOffset = NextOffset(@, interval, sf)],
          raised |-> FALSE]
    ELSE [shader |-> sh, raised |-> TRUE]

\* faulty variant: the offset written without the test of the handle
UpdateShaderUnguarded(sh, interval, sf) == WriteOffset(sh, interval, sf)

\* const shader = this.earth.material.userData.shader; if (shader) { ... }
UpdateShader(sh, interval, sf) ==
    IF sh.attached
    THEN WriteOffset(sh, interval, sf)
    ELSE [shader |-> sh, raised |-> FALSE]

\* ------------------------------------------------------------- THREE.Clock
\* clock.getDelta(): the first call starts the clock and returns 0; a later
\* call returns the time since the previous call and adds it to elapsedTime.
\* lag is the time passed since the previous call.
getDelta(c) == IF c.running THEN c.lag ELSE 0

ClockAfterDelta(c) ==
    [running |-> TRUE, elapsedTime |-> c.elapsedTime + getDelta(c), lag |-> 0]

\* ------------------------------------------------------------------ animate
\* faulty variant: animate with the render moved before the update
AnimateNextRenderFirst(pc) ==
    CASE pc = "schedule" -> "clock"
      [] pc = "clock" -> "render"
      [] pc = "render" -> "update"
      [] pc = "update" -> "return"
      [] OTHER -> "idle"

\* the statements of animate in the order of the code
AnimateNext(pc) ==
    CASE pc = "schedule" -> "clock"
      [] pc = "clock" -> "update"
      [] pc = "update" -> "render"
      [] pc = "render" -> "return"
      [] OTHER -> "idle"

\* faulty variant: requestAnimationFrame called whatever enableAnimation is
ScheduledAlways(anim) == 1

\* if (enableAnimation) { requestAnimationFrame(animate) }
Scheduled(anim) == IF anim THEN 1 ELSE 0

\* .then(animate): the first frame, run by the promise chain
ThenAnimate ==
    /\ StackEmpty
    /\ chainPc = "animate"
    /\ chainPc' = "animating"
    /\ framePc' = "schedule"
    /\ frameVia' = "then"
    /\ frameCount' = frameCount + 1
    /\ frameOps' = <<>>
    /\ lastTask' = "animate"
    /\ UNCHANGED <<utilVars, thrown, paramVars, eventVars, sceneVars, uniforms, renderCalls,
                   initPromise, initAwait, awaited, loadInFlight, failedLoads,
                   veilOpacity, errorLog, infoLog, pendingFrames, clock,
                   delta>>

\* the browser runs a requested animation frame, dt after the previous one
RafFires(dt) ==
    /\ TaskMayRun
    /\ pendingFrames > 0
    /\ frameCount < MaxFrames
    /\ pendingFrames' = pendingFrames - 1
    /\ clock' = [clock EXCEPT !.lag = @ + dt]
    /\ framePc' = "schedule"
    /\ frameVia' = "raf"
    /\ frameCount' = frameCount + 1
    /\ frameOps' = <<>>
    /\ lastTask' = "animate"
    /\ UNCHANGED <<utilVars, thrown, paramVars, eventVars, startupVars, sceneVars, uniforms,
                   renderCalls, delta>>

\* if (enableAnimation) { requestAnimationFrame(animate) }
AnimateSchedule ==
    /\ framePc = "schedule"
    /\ pendingFrames' = pendingFrames + Scheduled(enableAnimation)
    /\ framePc' = AnimateNext(framePc)
    /\ UNCHANGED <<utilVars, thrown, paramVars, eventVars, startupVars, sceneVars, uniforms,
                   frameOps, renderCalls, lastTask, frameVia, clock, delta,
                   frameCount>>

\* const delta = clock.getDelta(); const elapsed = clock.getElapsedTime();
\* uniforms.u_time.value = elapsed
AnimateClock ==
    /\ framePc = "clock"
    /\ delta' = getDelta(clock)
    /\ clock' = ClockAfterDelta(clock)
    /\ uniforms' = [uniforms EXCEPT !.u_time = clock'.elapsedTime]
    /\ frameOps' = Append(frameOps, <<"u_time", clock'.elapsedTime>>)
    /\ framePc' = AnimateNext(framePc)
    /\ UNCHANGED <<utilVars, thrown, paramVars, eventVars, startupVars, sceneVars, renderCalls,
                   lastTask, frameVia, pendingFrames, frameCount>>

\* app.updateScene(delta, elapsed): both meshes are turned, and the offset
\* of the patched shader is advanced when a handle is attached.  An error
\* raised by the update leaves animate at once.
AnimateUpdate ==
    /\ framePc = "update"
    /\ earthRot' = earthRot + EarthStep(delta, speedFactor)
    /\ cloudsRot' = cloudsRot + CloudsStep(delta, speedFactor)
    /\ shader' = UpdateShader(shader, delta, speedFactor).shader
    /\ sumOffsets' = IF shader.attached
                     THEN sumOffsets + Offset(delta, speedFactor)
                     ELSE sumOffsets
    /\ updateCalls' = updateCalls + 1
    /\ frameOps' = Append(frameOps, <<"updateScene", delta, clock.elapsedTime>>)
    /\ framePc' = IF UpdateShader(shader, delta, speedFactor).raised
                  THEN "thrown"
                  ELSE AnimateNext(framePc)
    /\ thrown' = IF UpdateShader(shader, delta, speedFactor).raised
                 THEN thrown \cup {frameCount}
                 ELSE thrown
    /\ UNCHANGED <<utilVars, paramVars, eventVars, startupVars, frameVia, pendingFrames,
                   clock, delta, frameCount, uniforms, renderCalls, lastTask,
                   sceneBuilt, speedFactor, compiles>>

\* composer === null ? renderer.render(scene, camera) : composer.render().
\* The renderer compiles the earth material when it has no program yet, or
\* again when the engine drops the program (recompile): onBeforeCompile
\* then stores a new handle, whose uv_xOffset is 0.
AnimateRender(recompile) ==
    /\ framePc = "render"
    /\ recompile => shader.attached /\ compiles <= MaxRecompiles
    /\ renderCalls' = IF composer
                      THEN [renderCalls EXCEPT !.composer = @ + 1]
                      ELSE [renderCalls EXCEPT !.renderer = @ + 1]
    /\ IF sceneBuilt /\ (~shader.attached \/ recompile)
       THEN /\ shader' = [attached |-> TRUE, uv_xOffset |-> 0]
            /\ compiles' = compiles + 1
            /\ sumOffsets' = 0
       ELSE UNCHANGED <<shader, compiles, sumOffsets>>
    /\ frameOps' = Append(frameOps,
                     <<"render", IF composer THEN "composer" ELSE "renderer">>)
    /\ framePc' = AnimateNext(framePc)
    /\ UNCHANGED <<utilVars, thrown, paramVars, eventVars, startupVars, frameVia, pendingFrames,
                   clock, delta, frameCount, uniforms, lastTask, sceneBuilt,
                   earthRot, cloudsRot, speedFactor, updateCalls>>

\* animate returns; the first frame's return resolves .then(animate)
AnimateReturn ==
    /\ framePc = "return"
    /\ framePc' = AnimateNext(framePc)
    /\ chainPc' = IF frameVia = "then" THEN "info" ELSE chainPc
    /\ UNCHANGED <<utilVars, thrown, paramVars, eventVars, sceneVars, uniforms, frameOps,
                   renderCalls, lastTask, initPromise, initAwait, awaited,
                   loadInFlight, failedLoads, veilOpacity, errorLog, infoLog,
                   frameVia, pendingFrames, clock, delta, frameCount>>

\* the "Rotation Speed" slider of the GUI sets params.speedFactor
GuiSetSpeedFactor(v) ==
    /\ TaskMayRun
    /\ sceneBuilt
    /\ v # speedFactor
    /\ speedFactor' = v
    /\ lastTask' = "gui"
    /\ UNCHANGED <<utilVars, thrown, paramVars, eventVars, startupVars, frameVars, uniforms,
                   frameOps, renderCalls, sceneBuilt, earthRot, cloudsRot,
                   shader, updateCalls, compiles, sumOffsets>>


\* --------------------------------------------------- a frame that raises
\* faulty variant: every frame's exception rejecting the promise chain
ExceptionReachesChain(via) == "chain"

\* An exception leaving animate: the first frame is called by
\* .then(animate), so it rejects the chain's promise and reaches .catch;
\* a later frame is called by the browser, which reports the exception and
\* goes on.
ExceptionReaches(via) == IF via = "then" THEN "chain" ELSE "window"

\* app.updateScene(delta, elapsed) raises on entry, or the render raises:
\* the rest of animate is skipped
AnimateThrows(step) ==
    /\ framePc = step
    /\ step \in {"update", "render"}
    /\ framePc' = "thrown"
    /\ thrown' = thrown \cup {frameCount}
    /\ updateCalls' = updateCalls + (IF step = "update" THEN 1 ELSE 0)
    /\ frameOps' = Append(frameOps, <<"throw", step>>)
    /\ UNCHANGED <<utilVars, paramVars, eventVars, startupVars, frameVia,
                   pendingFrames, clock, delta, frameCount, uniforms,
                   renderCalls, lastTask, sceneBuilt, earthRot, cloudsRot,
                   shader, speedFactor, compiles, sumOffsets>>

\* the exception leaves animate
AnimateUnwind ==
    /\ framePc = "thrown"
    /\ framePc' = "idle"
    /\ chainPc' = IF ExceptionReaches(frameVia) = "chain"
                  THEN "catch"
                  ELSE chainPc
    /\ uncaught' = uncaught
                   + (IF ExceptionReaches(frameVia) = "window" THEN 1 ELSE 0)
    /\ UNCHANGED <<utilVars, thrown, paramVars, sceneVars, uniforms, frameOps,
                   renderCalls, lastTask, initPromise, initAwait, awaited,
                   loadInFlight, failedLoads, veilOpacity, errorLog, infoLog,
                   frameVia, pendingFrames, clock, delta, frameCount,
                   window, listeners, camera, rendererSize, lastMove, events>>

\* ------------------------------------------------------- runApp's handlers
\* an event as the listener sees it: a mouse event has clientX and clientY
\* and no touches; a touch event has a list of touches, the first finger
\* first, and no clientX or clientY of its own (Undefined)
Undefined == -1

PointerEvent(kind, x, y) ==
    IF kind = "touchmove"
    THEN [type |-> kind,
          touches |-> <<[clientX |-> x, clientY |-> y],
                        [clientX |-> 0, clientY |-> 0]>>,
          clientX |-> Undefined, clientY |-> Undefined]
    ELSE [type |-> kind, touches |-> <<>>, clientX |-> x, clientY |-> y]

\* faulty variant: the listener reading clientX and clientY of the event itself
mouseListenerNoTouches(u, e) ==
    [u EXCEPT !.u_mouse = [x |-> e.clientX, y |-> e.clientY]]

\* uniforms.u_mouse.value.x = e.touches ? e.touches[0].clientX : e.clientX
\* uniforms.u_mouse.value.y = e.touches ? e.touches[0].clientY : e.clientY
mouseListener(u, e) ==
    [u EXCEPT !.u_mouse =
        [x |-> IF e.touches # <<>> THEN e.touches[1].clientX ELSE e.clientX,
         y |-> IF e.touches # <<>> THEN e.touches[1].clientY ELSE e.clientY]]

\* camera.aspect = window.innerWidth / window.innerHeight
ResizeCamera(win) == [aspect |-> Ratio(win.innerWidth, win.innerHeight)]

\* renderer.setSize(window.innerWidth, window.innerHeight)
ResizeRenderer(win) == <<win.innerWidth, win.innerHeight>>

\* faulty variant: the resize listener storing a fresh default bag, which
\* resets u_time and u_mouse
WriteResolutionFreshBag(u, win) ==
    IF "u_resolution" \in DOMAIN u
    THEN [bag |-> getDefaultUniforms(win), raised |-> FALSE]
    ELSE [bag |-> u, raised |-> TRUE]

\* uniforms.u_resolution.value.x = ..., .y = ...: a write through an entry
\* the bag does not have raises a TypeError
WriteResolution(u, win) ==
    IF "u_resolution" \in DOMAIN u
    THEN [bag |-> [u EXCEPT !.u_resolution =
                     [x |-> win.innerWidth * win.devicePixelRatio,
                      y |-> win.innerHeight * win.devicePixelRatio]],
          raised |-> FALSE]
    ELSE [bag |-> u, raised |-> TRUE]

\* faulty variant: the resolution written without the device pixel ratio
ResizeUniformsNoRatio(u, win) ==
    IF "u_resolution" \in DOMAIN u
    THEN [bag |-> [u EXCEPT !.u_resolution =
                     [x |-> win.innerWidth, y |-> win.innerHeight]],
          raised |-> FALSE]
    ELSE [bag |-> u, raised |-> FALSE]

\* if (uniforms.u_resolution !== undefined) { ... }
ResizeUniforms(u, win) ==
    IF "u_resolution" \in DOMAIN u
    THEN WriteResolution(u, win)
    ELSE [bag |-> u, raised |-> FALSE]

\* the viewport becomes w by h at device pixel ratio d, and the resize
\* listener runs
Resize(w, h, d) ==
    /\ TaskMayRun
    /\ events < MaxEvents
    /\ <<w, h, d>> # <<window.innerWidth, window.innerHeight,
                       window.devicePixelRatio>>
    /\ window' = [innerWidth |-> w, innerHeight |-> h, devicePixelRatio |-> d]
    /\ camera' = ResizeCamera(window')
    /\ rendererSize' = ResizeRenderer(window')
    /\ uniforms' = ResizeUniforms(uniforms, window').bag
    /\ uncaught' = uncaught
                   + (IF ResizeUniforms(uniforms, window').raised THEN 1 ELSE 0)
    /\ events' = events + 1
    /\ frameOps' = Append(frameOps, <<"resize">>)
    /\ lastTask' = "resize"
    /\ UNCHANGED <<utilVars, thrown, paramVars, startupVars, frameVars, sceneVars, renderCalls,
                   listeners, lastMove>>

\* the pointer moves: the browser dispatches a mouse-move or, on a window
\* that supports touch, a touch-move event to the listeners of its kind
PointerMove(kind, x, y) ==
    /\ TaskMayRun
    /\ events < MaxEvents
    /\ kind = "touchmove" => touchSupported
    /\ lastMove' = [lastMove EXCEPT ![kind] = [seen |-> TRUE, x |-> x, y |-> y]]
    /\ events' = events + 1
    /\ IF kind \in listeners
       THEN /\ uniforms' = mouseListener(uniforms, PointerEvent(kind, x, y))
            /\ frameOps' = Append(frameOps, <<"pointer">>)
       ELSE UNCHANGED <<uniforms, frameOps>>
    /\ lastTask' = kind
    /\ UNCHANGED <<utilVars, thrown, paramVars, startupVars, frameVars, sceneVars, renderCalls,
                   window, listeners, camera, rendererSize, uncaught>>


\* The state when runApp returns: the listeners are registered, and
\* app.initScene() has run up to its first await, of
\* updateLoadingProgressBar(0.1); nothing of the scene is built yet.
InitWith(anims, composers, touches, bags) ==
    /\ enableAnimation \in anims
    /\ composer \in composers
    /\ touchSupported \in touches
    /\ window = InitialWindow
    /\ listeners = {"resize", PointerKind(touchSupported)}
    /\ camera = createCamera(InitialWindow)
    /\ rendererSize = createRenderer(InitialWindow)
    /\ uniforms \in bags
    /\ initPromise = "pending"
    /\ initAwait = 1
    /\ awaited = "pending"
    /\ loadInFlight = FALSE
    /\ failedLoads = 0
    /\ chainPc = ChainOnInit("pending")
    /\ veilOpacity = 1
    /\ errorLog = 0
    /\ infoLog = 0
    /\ framePc = "idle"
    /\ frameVia = "none"
    /\ pendingFrames = 0
    /\ clock = [running |-> FALSE, elapsedTime |-> 0, lag |-> 0]
    /\ delta = 0
    /\ sceneBuilt = FALSE
    /\ earthRot = 0
    /\ cloudsRot = 0
    /\ shader = NoShader
    /\ speedFactor = InitialSpeedFactor
    /\ frameCount = 0
    /\ frameOps = <<>>
    /\ updateCalls = 0
    /\ renderCalls = [renderer |-> 0, composer |-> 0]
    /\ compiles = 0
    /\ events = 0
    /\ uncaught = 0
    /\ sumOffsets = 0
    /\ lastMove = [k \in PointerKinds |-> NoMove]
    /\ lastTask = "runApp"
    /\ thrown = {}

\* ------------------------------------------------- maintainBgAspect()
\* Numbers that are quotients are held as fractions <<n, d>> in lowest terms.
One == <<1, 1>>
Two == <<2, 1>>
Zero == <<0, 1>>
RDiv(a, b) == Ratio(a[1] * b[2], a[2] * b[1])
RSub(a, b) == Ratio(a[1] * b[2] - b[1] * a[2], a[2] * b[2])
RGreater(a, b) == a[1] * b[2] > b[1] * a[2]

\* image sizes passed by the caller, and what the browser reports of the
\* window: inner size, and the width of the body, which is the inner width
\* less the vertical scroll bar when there is one
ImageWidths == {2, 8, 16}
ImageHeights == {2, 4}
BgWindows ==
    {w \in [innerWidth : {5, 9}, innerHeight : {2, 4}, bodyOffsetWidth : {5, 8, 9}] :
        w.bodyOffsetWidth <= w.innerWidth}
\* scene.background: none, or a texture with some offset and repeat
NoBackground == [present |-> FALSE]
Backgrounds ==
    {NoBackground} \cup
    [present : {TRUE},
     offset : [x : {Zero, <<1, 4>>}, y : {Zero, <<1, 3>>}],
     repeat : [x : {One, <<1, 2>>}, y : {One, <<2, 3>>}]]

\* faulty variant: the size measured without the scroll-bar correction
windowSizeInner(win, withScrollBar) ==
    [width |-> win.innerWidth, height |-> win.innerHeight]

\* windowSize(withScrollBar): wid - (withScrollBar ? wid -
\* document.body.offsetWidth + 1 : 0) by hei
windowSize(win, withScrollBar) ==
    [width |-> win.innerWidth
               - (IF withScrollBar
                  THEN win.innerWidth - win.bodyOffsetWidth + 1
                  ELSE 0),
     height |-> win.innerHeight]

\* backgroundImageWidth / backgroundImageHeight / (size.width / size.height)
BgFactor(w, h, size) == RDiv(RDiv(<<w, 1>>, <<h, 1>>),
                             RDiv(<<size.width, 1>>, <<size.height, 1>>))

\* faulty variant: the crop applied to the repeat the texture already has
maintainBgAspectScaling(bg, w, h, win) ==
    IF bg.present
    THEN LET size == windowSize(win, TRUE)
             factor == BgFactor(w, h, size)
         IN [present |-> TRUE,
             offset |->
               [x |-> IF RGreater(factor, One)
                      THEN RDiv(RSub(One, RDiv(One, factor)), Two)
                      ELSE Zero,
                y |-> IF RGreater(factor, One)
                      THEN Zero
                      ELSE RDiv(RSub(One, factor), Two)],
             repeat |->
               [x |-> IF RGreater(factor, One)
                      THEN RDiv(bg.repeat.x, factor)
                      ELSE bg.repeat.x,
                y |-> IF RGreater(factor, One)
                      THEN bg.repeat.y
                      ELSE RDiv(bg.repeat.y, RDiv(One, factor))]]
    ELSE bg

\* maintainBgAspect(scene, backgroundImageWidth, backgroundImageHeight)
maintainBgAspect(bg, w, h, win) ==
    IF bg.present
    THEN LET size == windowSize(win, TRUE)
             factor == BgFactor(w, h, size)
         IN [present |-> TRUE,
             offset |->
               [x |-> IF RGreater(factor, One)
                      THEN RDiv(RSub(One, RDiv(One, factor)), Two)
                      ELSE Zero,
                y |-> IF RGreater(factor, One)
                      THEN Zero
                      ELSE RDiv(RSub(One, factor), Two)],
             repeat |->
               [x |-> IF RGreater(factor, One) THEN RDiv(One, factor) ELSE One,
                y |-> IF RGreater(factor, One) THEN One ELSE factor]]
    ELSE bg

\* no call of maintainBgAspect yet
NoBgArgs == <<>>

\* a caller passes an image size to maintainBgAspect
MaintainBgAspect(w, h) ==
    /\ bgCall.calls < MaxBgCalls
    /\ bgCall' = [calls |-> bgCall.calls + 1,
                  win |-> bgCall.win,
                  background |-> maintainBgAspect(bgCall.background, w, h,
                                                  bgCall.win),
                  args |-> <<w, h, bgCall.win>>,
                  before |-> [args |-> bgCall.args,
                              background |-> bgCall.background]]
    /\ UNCHANGED <<appVars, hexCall, patchCall>>

\* the window is resized between two calls
BgWindowResized(win) ==
    /\ bgCall.calls < MaxBgCalls
    /\ win # bgCall.win
    /\ bgCall' = [bgCall EXCEPT !.win = win]
    /\ UNCHANGED <<appVars, hexCall, patchCall>>

InitBg(wins, bgs) ==
    /\ bgCall \in [calls : {0}, win : wins, background : bgs,
                   args : {NoBgArgs},
                   before : {[args |-> NoBgArgs, background |-> NoBackground]}]

\* ----------------------------------------------------------- hexToRgb()
\* A string is a sequence of characters.
\* the character class [a-f\d] under the flag i
HexDigits == <<"0", "1", "2", "3", "4", "5", "6", "7", "8", "9",
               "a", "b", "c", "d", "e", "f">>
UpperHexDigits == <<"0", "1", "2", "3", "4", "5", "6", "7", "8", "9",
                    "A", "B", "C", "D", "E", "F">>
InClass(c) ==
    \E i \in 1..Len(HexDigits) : c = HexDigits[i] \/ c = UpperHexDigits[i]

\* the value of a hexadecimal digit
DigitValue(c) ==
    (CHOOSE i \in 1..Len(HexDigits) : c = HexDigits[i] \/ c = UpperHexDigits[i]) - 1

\* no match
NoMatch == [matched |-> FALSE]

\* /^#?([a-f\d]{2})([a-f\d]{2})([a-f\d]{2})$/i.exec(hex): an optional "#",
\* then three groups of two characters of the class, then the end of the
\* string
RegexExec(hex) ==
    LET first == IF Len(hex) > 0 /\ hex[1] = "#" THEN 2 ELSE 1 IN
    IF /\ Len(hex) = first + 5
       /\ \A i \in first..Len(hex) : InClass(hex[i])
    THEN [matched |-> TRUE,
          groups |-> <<SubSeq(hex, first, first + 1),
                       SubSeq(hex, first + 2, first + 3),
                       SubSeq(hex, first + 4, first + 5)>>]
    ELSE NoMatch

\* parseInt(group, 16) of a group of two hexadecimal digits
parseInt(group) == 16 * DigitValue(group[1]) + DigitValue(group[2])

\* what hexToRgb returns: null, or an object with r, g and b; reading a
\* group of a null match raises a TypeError
NullResult == [raised |-> FALSE, null |-> TRUE]
Raised == [raised |-> TRUE, null |-> TRUE]

\* faulty variant: the groups read without the test of the match
hexToRgbNoNullTest(hex, forShaders) ==
    LET result == RegexExec(hex) IN
    IF ~result.matched
    THEN Raised
    ELSE [raised |-> FALSE, null |-> FALSE,
          r |-> parseInt(result.groups[1]),
          g |-> parseInt(result.groups[2]),
          b |-> parseInt(result.groups[3])]

\* faulty variant: the components for shaders divided by 256
hexToRgbBy256(hex, forShaders) ==
    LET result == RegexExec(hex) IN
    IF ~result.matched
    THEN NullResult
    ELSE IF forShaders
         THEN [raised |-> FALSE, null |-> FALSE,
               r |-> Ratio(parseInt(result.groups[1]), 256),
               g |-> Ratio(parseInt(result.groups[2]), 256),
               b |-> Ratio(parseInt(result.groups[3]), 256)]
         ELSE [raised |-> FALSE, null |-> FALSE,
               r |-> parseInt(result.groups[1]),
               g |-> parseInt(result.groups[2]),
               b |-> parseInt(result.groups[3])]

\* hexToRgb(hex, forShaders = false); a component divided by 255 is held as
\* a fraction in lowest terms
hexToRgb(hex, forShaders) ==
    LET result == RegexExec(hex) IN
    IF forShaders
    THEN IF result.matched
         THEN [raised |-> FALSE, null |-> FALSE,
               r |-> Ratio(parseInt(result.groups[1]), 255),
               g |-> Ratio(parseInt(result.groups[2]), 255),
               b |-> Ratio(parseInt(result.groups[3]), 255)]
         ELSE NullResult
    ELSE IF result.matched
         THEN [raised |-> FALSE, null |-> FALSE,
               r |-> parseInt(result.groups[1]),
               g |-> parseInt(result.groups[2]),
               b |-> parseInt(result.groups[3])]
         ELSE NullResult

\* the inputs: something before, three pieces, something after.  The
\* pieces are pairs of digits of either case, a pair with a letter outside
\* the class, a single digit, or nothing.
HexBefore == {<<>>, <<"#">>, <<"#", "#">>, <<" ">>, <<"0">>}
HexPieces == {<<"F", "F">>, <<"8", "8">>, <<"0", "0">>, <<"a", "B">>,
              <<"0", "g">>, <<"8">>, <<>>}
HexAfter == {<<>>, <<"0">>, <<"\n">>}
HexInputs ==
    {p \o a \o b \o c \o q :
        p \in HexBefore, a \in HexPieces, b \in HexPieces, c \in HexPieces,
        q \in HexAfter}

\* no call of hexToRgb yet
NoResult == [raised |-> FALSE, null |-> FALSE]

\* a caller passes hexToRgb its arguments
HexToRgb ==
    /\ ~hexCall.called
    /\ hexCall' = [hexCall EXCEPT !.called = TRUE,
                       !.result = hexToRgb(hexCall.hex, hexCall.forShaders)]
    /\ UNCHANGED <<appVars, bgCall, patchCall>>

InitHex(inputs) ==
    hexCall \in [hex : inputs, forShaders : BOOLEAN, called : {FALSE},
                 result : {NoResult}]

\* ------------------------------------------------ earthMat.onBeforeCompile
\* A shader source is a sequence of pieces of text; the three markers the
\* callback looks for are pieces, and so is each line it inserts.
CommonMarker == "#include <common>"
RoughnessMarker == "#include <roughnessmap_fragment>"
EmissiveMarker == "#include <emissivemap_fragment>"
OtherText == "#include <map_fragment>"
Pieces == {CommonMarker, RoughnessMarker, EmissiveMarker, OtherText}

\* the texts the callback puts in the place of the markers
CommonText ==
    <<CommonMarker, "uniform sampler2D tClouds;", "uniform float uv_xOffset;">>
RoughnessText ==
    <<"float roughnessFactor = roughness;",
      "vec4 texelRoughness = texture2D( roughnessMap, vRoughnessMapUv );",
      "roughnessFactor *= clamp(texelRoughness.g, 0.5, 1.0);">>
EmissiveText ==
    <<"emissiveColor *= 1.0 - smoothstep(-0.02, 0.0, dot(geometryNormal, directionalLights[0].direction));",
      "float cloudsMapValue = texture2D(tClouds, vec2(vMapUv.x - uv_xOffset, vMapUv.y)).r;",
      "diffuseColor.rgb *= max(1.0 - cloudsMapValue, 0.2);",
      "diffuseColor.rgb += atmosphere;">>

\* the first position of a piece in a source, 0 when it has none
IndexOf(source, piece) ==
    IF \E i \in 1..Len(source) : source[i] = piece
    THEN CHOOSE i \in 1..Len(source) :
             /\ source[i] = piece
             /\ \A j \in 1..(i - 1) : source[j] # piece
    ELSE 0

\* faulty variant: every occurrence of the pattern replaced
RECURSIVE replaceAll(_, _, _)
replaceAll(source, pattern, text) ==
    IF source = <<>>
    THEN <<>>
    ELSE (IF Head(source) = pattern THEN text ELSE <<Head(source)>>)
         \o replaceAll(Tail(source), pattern, text)

\* source.replace(pattern, text) with a string pattern: the first
\* occurrence is replaced, a source without the pattern is returned as it is
replace(source, pattern, text) ==
    IF IndexOf(source, pattern) = 0
    THEN source
    ELSE SubSeq(source, 1, IndexOf(source, pattern) - 1)
         \o text
         \o SubSeq(source, IndexOf(source, pattern) + 1, Len(source))

\* earthMat.onBeforeCompile = function (shader) { ... }: the two uniforms
\* are added, the fragment source goes through the three replacements one
\* after the other, the vertex source is not touched
onBeforeCompile(sh) ==
    [uniforms |-> sh.uniforms \cup {"tClouds", "uv_xOffset"},
     vertexShader |-> sh.vertexShader,
     fragmentShader |->
        replace(replace(replace(sh.fragmentShader, CommonMarker, CommonText),
                        RoughnessMarker, RoughnessText),
                EmissiveMarker, EmissiveText)]

\* the sources of at most n pieces
Sources(n) == UNION {[1..k -> Pieces] : k \in 0..n}

\* the engine needs a program for the material: it hands the callback a new
\* shader object holding the sources of the material's shader
Compile ==
    /\ patchCall.fires < MaxCompiles
    /\ patchCall' = [patchCall EXCEPT
            !.fires = @ + 1,
            !.shader = onBeforeCompile([uniforms |-> {"diffuse"},
                                        vertexShader |-> patchCall.vertexSource,
                                        fragmentShader |-> patchCall.fragmentSource]),
            !.previous = patchCall.shader]
    /\ UNCHANGED <<appVars, bgCall, hexCall>>

\* no shader handed to the callback yet
NoCompiled == [uniforms |-> {}, vertexShader |-> <<>>, fragmentShader |-> <<>>]

InitPatch(fragments, vertices) ==
    patchCall \in [fires : {0}, fragmentSource : fragments,
                   vertexSource : vertices, shader : {NoCompiled},
                   previous : {NoCompiled}]

\* ---------------------------------------------------------- specifications
\* index.js calls neither hexToRgb nor maintainBgAspect
BgIdle == InitBg({[innerWidth |-> 5, innerHeight |-> 2, bodyOffsetWidth |-> 5]},
                 {NoBackground})
HexIdle == InitHex({<<>>}) /\ ~hexCall.forShaders
PatchIdle == InitPatch({<<>>}, {<<>>})
UtilsIdle == BgIdle /\ HexIdle /\ PatchIdle

\* runApp as index.js calls it, before any frame
AppIdle == InitWith({TRUE}, {FALSE}, {FALSE}, {getDefaultUniforms(InitialWindow)})

\* the steps of app.initScene() and of runApp's promise chain
StartupStep ==
    \/ BarSettles
    \/ \E ok \in BOOLEAN : LoaderCompletes(ok)
    \/ \E raise \in BOOLEAN : InitSceneResume(raise)
    \/ ThenVeil
    \/ ThenAnimate
    \/ ThenInfo
    \/ CatchLog

\* the statements of one call of animate
FrameStep(recompiles) ==
    \/ AnimateSchedule
    \/ AnimateClock
    \/ AnimateUpdate
    \/ \E recompile \in recompiles : AnimateRender(recompile)
    \/ AnimateReturn

\* The lifecycle: runApp called with or without animation and composer,
\* loads that may fail, segments of initScene that may raise, 60 Hz frames,
\* and a resize and a mouse move that may come at any time.
Init ==
    /\ InitWith(BOOLEAN, BOOLEAN, {FALSE}, {getDefaultUniforms(InitialWindow)})
    /\ UtilsIdle

Next ==
    \/ StartupStep
    \/ RafFires(16)
    \/ FrameStep({FALSE})
    \/ Resize(6, 3, 2)
    \/ PointerMove("mousemove", 1, 7)

Spec == Init /\ [][Next]_vars

\* The scene: runApp(app, scene, renderer, camera, true, undefined,
\* undefined) as index.js calls it, frames after
\* short and long intervals, the speed slider moved between frames, and the
\* earth material compiled at its first render and possibly again.
InitScene ==
    /\ InitWith({TRUE}, {FALSE}, {FALSE}, {getDefaultUniforms(InitialWindow)})
    /\ UtilsIdle

NextScene ==
    \/ StartupStep
    \/ \E dt \in Intervals : RafFires(dt)
    \/ FrameStep(BOOLEAN)
    \/ \E v \in SpeedFactors : GuiSetSpeedFactor(v)

SpecScene == InitScene /\ [][NextScene]_vars

\* The events: windows with and without touch support, the default uniform
\* bag or one without u_resolution, resizes and pointer moves of both kinds.
InitEvents ==
    /\ InitWith({TRUE}, {FALSE}, BOOLEAN,
                {getDefaultUniforms(InitialWindow), BareUniforms})
    /\ UtilsIdle

NextEvents ==
    \/ StartupStep
    \/ RafFires(16)
    \/ FrameStep({FALSE})
    \/ \E w \in Widths, h \in Heights, d \in PixelRatios : Resize(w, h, d)
    \/ \E kind \in PointerKinds, x \in Coords, y \in Coords :
           PointerMove(kind, x, y)

SpecEvents == InitEvents /\ [][NextEvents]_vars

\* Frames that raise: runApp with enableAnimation = true, with and without
\* a composer, where any call of updateScene or of the render may raise.
InitThrow ==
    /\ InitWith({TRUE}, BOOLEAN, {FALSE}, {getDefaultUniforms(InitialWindow)})
    /\ UtilsIdle

NextThrow ==
    \/ StartupStep
    \/ RafFires(16)
    \/ FrameStep({FALSE})
    \/ \E step \in {"update", "render"} : AnimateThrows(step)
    \/ AnimateUnwind

SpecThrow == InitThrow /\ [][NextThrow]_vars

\* maintainBgAspect: scenes with and without a background, whose offset and
\* repeat hold anything, windows with and without a scroll bar, called with
\* several image sizes, the window resized or not between the calls.
InitBgAspect == AppIdle /\ InitBg(BgWindows, Backgrounds) /\ HexIdle /\ PatchIdle

NextBgAspect ==
    \/ \E w \in ImageWidths, h \in ImageHeights : MaintainBgAspect(w, h)
    \/ \E win \in BgWindows : BgWindowResized(win)

SpecBgAspect == InitBgAspect /\ [][NextBgAspect]_vars

\* hexToRgb: called once on each input, for the page and for shaders.
InitHexToRgb == AppIdle /\ BgIdle /\ InitHex(HexInputs) /\ PatchIdle

NextHexToRgb == HexToRgb

SpecHexToRgb == InitHexToRgb /\ [][NextHexToRgb]_vars

\* onBeforeCompile: fragment sources with the markers in any order and any
\* number, vertex sources with and without a marker, compiled up to
\* MaxCompiles times.
InitShaderPatch ==
    /\ AppIdle /\ BgIdle /\ HexIdle
    /\ InitPatch(Sources(MaxSourceLen), {<<OtherText>>, <<CommonMarker, OtherText>>})

NextShaderPatch == Compile

SpecShaderPatch == InitShaderPatch /\ [][NextShaderPatch]_vars


\* ------------------------------------------------------------------ claims
\* calls of renderer.render and of composer.render together
Renders == renderCalls.renderer + renderCalls.composer

\* C1: app.updateScene is never invoked and no frame runs before the
\* promise of app.initScene() has resolved, every await of initScene passed;
\* the veil is hidden only after initScene resolved, and before the first
\* frame runs.
C1_NoFrameBeforeInit ==
    /\ (updateCalls > 0 \/ Renders > 0 \/ frameCount > 0 \/ framePc # "idle")
          => initPromise = "fulfilled" /\ initAwait = NumAwaits /\ sceneBuilt
    /\ veilOpacity = 0 => initPromise = "fulfilled"
    /\ frameCount > 0 => veilOpacity = 0

C1_Witness ==
    /\ initPromise = "fulfilled"
    /\ initAwait = NumAwaits
    /\ veilOpacity = 0
    /\ updateCalls > 0
    /\ Renders > 0

\* C2: whenever a patched shader handle is attached, its uv_xOffset is
\* >= 0 and < 1 (numerator < TwoPi).
C2_OffsetInUnitInterval ==
    shader.attached => 0 <= shader.uv_xOffset /\ shader.uv_xOffset < TwoPi

\* C3: whenever a patched shader handle is attached, its uv_xOffset equals
\* the sum of the increments added since it was attached, reduced modulo 1.
C3_OffsetIsSumModuloOne ==
    shader.attached => shader.uv_xOffset = sumOffsets % TwoPi

\* C4: the rotation the clouds have accumulated since the scene was built
\* is exactly twice the earth's, both started from the same angle, after
\* any frames at any intervals and speed factors.
C4_CloudsTwiceEarth ==
    sceneBuilt =>
        cloudsRot - InitialRotation = 2 * (earthRot - InitialRotation)

\* two frames with a positive interval, the slider moved from 2.0 to 20.0
\* between them
C4_Witness ==
    /\ updateCalls = 3
    /\ speedFactor = 200
    /\ earthRot - InitialRotation = 16 * EarthRate * 20 + 16 * EarthRate * 200
    /\ cloudsRot - InitialRotation = 2 * (earthRot - InitialRotation)

\* C5: once the promise of app.initScene() is rejected, the error is logged
\* once by the catch handler, which ends the chain; the veil stays, no
\* frame is scheduled or run, updateScene is never called, and initScene
\* is not entered again.
C5_RejectedInitLoggedOnce ==
    /\ [](initPromise = "rejected" =>
            /\ chainPc \in {"catch", "logged"}
            /\ errorLog = (IF chainPc = "logged" THEN 1 ELSE 0)
            /\ veilOpacity = 1
            /\ infoLog = 0
            /\ frameCount = 0 /\ framePc = "idle" /\ pendingFrames = 0
            /\ updateCalls = 0 /\ Renders = 0)
    /\ [][initPromise = "rejected" =>
            UNCHANGED <<initPromise, initAwait, awaited, loadInFlight>>]_vars

C5_Witness ==
    /\ initPromise = "rejected"
    /\ chainPc = "logged"
    /\ errorLog = 1
    /\ veilOpacity = 1

\* C6: when a load has failed and startup can take no further step, the
\* failure has been logged by runApp's catch handler.
C6_FailedLoadIsLogged ==
    (failedLoads > 0 /\ ~ENABLED StartupStep) => errorLog > 0

\* C7: a frame writes u_time, then calls updateScene with the same elapsed
\* value, then renders with the composer if there is one and with the
\* renderer otherwise, each once; a resize or pointer handler runs only
\* after the render of the frame before it.
C7_FrameOrder ==
    frameCount > 0 =>
        LET n == Len(frameOps) IN
        /\ framePc \in {"schedule", "clock"} => n = 0
        /\ framePc = "update" => n = 1
        /\ framePc = "render" => n = 2
        /\ framePc = "return" => n = 3
        /\ framePc = "idle" => n >= 3
        /\ n >= 1 => /\ frameOps[1][1] = "u_time"
                     /\ frameOps[1][2] = uniforms.u_time
        /\ n >= 2 => /\ frameOps[2][1] = "updateScene"
                     /\ frameOps[2][2] = delta
                     /\ frameOps[2][3] = frameOps[1][2]
        /\ n >= 3 => /\ frameOps[3][1] = "render"
                     /\ frameOps[3][2] = (IF composer THEN "composer"
                                          ELSE "renderer")
        /\ \A i \in 4..n : frameOps[i][1] \in {"resize", "pointer"}
        /\ framePc = "idle" => updateCalls = frameCount /\ Renders = frameCount
        /\ (IF composer THEN renderCalls.renderer ELSE renderCalls.composer) = 0

C7_Witness ==
    /\ composer
    /\ frameCount = 2
    /\ framePc = "idle"
    /\ renderCalls.composer = 2
    /\ Len(frameOps) = 4
    /\ uniforms.u_time = 16

\* C8: without animation exactly one frame runs and none is ever
\* scheduled; with animation every frame schedules exactly one successor,
\* so one frame is pending after each frame and never more than one.
C8_OneShotOrOneSuccessor ==
    /\ pendingFrames <= 1
    /\ ~enableAnimation =>
          /\ pendingFrames = 0
          /\ frameCount <= 1
          /\ chainPc \in {"info", "done"} =>
                frameCount = 1 /\ updateCalls = 1 /\ Renders = 1
    /\ enableAnimation =>
          pendingFrames = (IF frameCount = 0 \/ framePc = "schedule"
                           THEN 0 ELSE 1)

C8_Witness ==
    /\ ~enableAnimation
    /\ chainPc = "done"
    /\ frameCount = 1
    /\ updateCalls = 1
    /\ Renders = 1
    /\ pendingFrames = 0

\* C9: after the resize listener has run, camera.aspect is width / height,
\* the renderer's size is (width, height) and u_resolution, when the bag
\* has it, is (width * ratio, height * ratio) of the same window; a bag
\* without u_resolution is left as it is and nothing is raised.
C9_ResizeConsistent ==
    lastTask = "resize" =>
        /\ camera.aspect[1] * window.innerHeight
              = camera.aspect[2] * window.innerWidth
        /\ rendererSize = <<window.innerWidth, window.innerHeight>>
        /\ "u_resolution" \in DOMAIN uniforms =>
              uniforms.u_resolution =
                  [x |-> window.innerWidth * window.devicePixelRatio,
                   y |-> window.innerHeight * window.devicePixelRatio]
        /\ "u_resolution" \notin DOMAIN uniforms =>
              DOMAIN uniforms = {"u_time", "u_mouse"}
        /\ uncaught = 0

C9_Witness ==
    /\ lastTask = "resize"
    /\ window = [innerWidth |-> 6, innerHeight |-> 3, devicePixelRatio |-> 2]
    /\ "u_resolution" \in DOMAIN uniforms
    /\ uniforms.u_resolution = [x |-> 12, y |-> 6]
    /\ camera.aspect = <<2, 1>>
    /\ events = 2

\* C10: runApp listens to exactly one kind of pointer move, touch-move on
\* a window with touch support and mouse-move otherwise, and u_mouse holds
\* the coordinates of the latest event of that kind (0, 0 before the first).
C10_MouseIsLastMove ==
    LET kind == IF touchSupported THEN "touchmove" ELSE "mousemove" IN
    /\ listeners \cap PointerKinds = {kind}
    /\ uniforms.u_mouse = [x |-> lastMove[kind].x, y |-> lastMove[kind].y]

\* a touch move, then a mouse move elsewhere, on a window with touch support
C10_Witness ==
    /\ touchSupported
    /\ lastTask = "mousemove"
    /\ lastMove["touchmove"].seen
    /\ lastMove["mousemove"].x # lastMove["touchmove"].x
    /\ uniforms.u_mouse.x = lastMove["touchmove"].x

\* the u_resolution entry of a bag, <<>> when the bag has none
Resolution(u) ==
    IF "u_resolution" \in DOMAIN u
    THEN <<u.u_resolution.x, u.u_resolution.y>>
    ELSE <<>>

\* C11: each entry of the uniform bag has one writer.  u_time is changed
\* only by the frame step of animate, u_resolution only by the resize
\* listener and u_mouse only by the pointer listener; a frame leaves
\* u_mouse and u_resolution as they are, a resize leaves u_time and
\* u_mouse, a pointer move leaves u_time and u_resolution; and
\* app.updateScene and the onBeforeCompile callback change none of them.
C11_SingleWriter ==
    [][LET frame == framePc # "idle"
           resize == lastTask' = "resize" /\ events' # events
           pointer == lastTask' \in PointerKinds /\ events' # events
       IN
       /\ uniforms'.u_time # uniforms.u_time =>
              framePc = "clock" /\ framePc' = AnimateNext("clock")
       /\ Resolution(uniforms') # Resolution(uniforms) => resize
       /\ uniforms'.u_mouse # uniforms.u_mouse => pointer
       /\ frame =>
              /\ uniforms'.u_mouse = uniforms.u_mouse
              /\ Resolution(uniforms') = Resolution(uniforms)
       /\ resize =>
              /\ uniforms'.u_time = uniforms.u_time
              /\ uniforms'.u_mouse = uniforms.u_mouse
       /\ pointer =>
              /\ uniforms'.u_time = uniforms.u_time
              /\ Resolution(uniforms') = Resolution(uniforms)
       /\ framePc = "update" => uniforms' = uniforms
       /\ compiles' # compiles => uniforms' = uniforms]_vars

\* all three entries have been written, and the earth material compiled
C11_Witness ==
    /\ uniforms.u_time > 0
    /\ uniforms.u_mouse # [x |-> 0, y |-> 0]
    /\ "u_resolution" \in DOMAIN uniforms
    /\ uniforms.u_resolution # getDefaultUniforms(InitialWindow).u_resolution
    /\ updateCalls >= 2
    /\ compiles >= 1

\* C12: a call of updateScene while no patched shader handle is attached
\* raises no error and leaves the (absent) handle and its offset alone,
\* and still turns the earth and the clouds by the frame's increments.
C12_NoHandleNoError ==
    [][framePc = "update" /\ ~shader.attached =>
          /\ framePc' = AnimateNext("update")
          /\ uncaught' = uncaught
          /\ chainPc' = chainPc
          /\ shader' = shader
          /\ sumOffsets' = sumOffsets
          /\ updateCalls' = updateCalls + 1
          /\ earthRot' = earthRot + delta * EarthRate * speedFactor
          /\ cloudsRot' = cloudsRot + delta * CloudsRate * speedFactor]_vars

\* updateScene has run before the first render attached a handle
C12_Witness ==
    /\ updateCalls = 1
    /\ ~shader.attached
    /\ framePc = "render"
    /\ sceneBuilt
    /\ frameOps[Len(frameOps)][1] = "updateScene"

\* the factor as the statement of C13 reads: the image's aspect over the
\* aspect of the viewport, innerWidth by innerHeight
ViewportFactor(args) ==
    RDiv(RDiv(<<args[1], 1>>, <<args[2], 1>>),
         RDiv(<<args[3].innerWidth, 1>>, <<args[3].innerHeight, 1>>))

\* the factor over the width maintainBgAspect measures: that of the body
\* less one, by innerHeight
MeasuredFactor(args) ==
    RDiv(RDiv(<<args[1], 1>>, <<args[2], 1>>),
         RDiv(<<args[3].bodyOffsetWidth - 1, 1>>, <<args[3].innerHeight, 1>>))

\* offset and repeat of a "cover" crop for a factor f
CoverCrop(f) ==
    IF RGreater(f, One)
    THEN [present |-> TRUE,
          offset |-> [x |-> Ratio(f[1] - f[2], 2 * f[1]), y |-> Zero],
          repeat |-> [x |-> <<f[2], f[1]>>, y |-> One]]
    ELSE [present |-> TRUE,
          offset |-> [x |-> Zero, y |-> Ratio(f[2] - f[1], 2 * f[2])],
          repeat |-> [x |-> One, y |-> f]]

\* C13 as stated: after a call on a scene with a background, offset and
\* repeat are the cover crop for factor = (imgWidth / imgHeight) /
\* (viewportWidth / viewportHeight); a scene without a background is left
\* as it is.
C13_CoverCropOfViewport ==
    bgCall.calls > 0 =>
        bgCall.background = IF bgCall.before.background.present
                            THEN CoverCrop(ViewportFactor(bgCall.args))
                            ELSE bgCall.before.background

\* C13, amended: the same with the factor taken over the width
\* windowSize(true) returns, document.body.offsetWidth - 1, in place of the
\* viewport's width.  For factor > 1: repeat.x = 1 / factor, offset.x =
\* (1 - 1 / factor) / 2, repeat.y = 1, offset.y = 0; otherwise repeat.y =
\* factor, offset.y = (1 - factor) / 2, repeat.x = 1, offset.x = 0.
C13_CoverCropOfMeasuredWidth ==
    bgCall.calls > 0 =>
        bgCall.background = IF bgCall.before.background.present
                            THEN CoverCrop(MeasuredFactor(bgCall.args))
                            ELSE bgCall.before.background

\* factor 2 gives repeat.x 1/2 and offset.x 1/4
C13_Witness ==
    /\ bgCall.calls > 0
    /\ bgCall.before.background.present
    /\ MeasuredFactor(bgCall.args) = Two
    /\ bgCall.background.repeat = [x |-> <<1, 2>>, y |-> One]
    /\ bgCall.background.offset = [x |-> <<1, 4>>, y |-> Zero]

\* a background whose offset and repeat are the defaults of a new texture
FreshBackground ==
    [present |-> TRUE, offset |-> [x |-> Zero, y |-> Zero],
     repeat |-> [x |-> One, y |-> One]]

\* C14: maintainBgAspect is idempotent.  A call with the image size of the
\* previous call, in a window of the same size, leaves offset and repeat as
\* the previous call left them; and what a call leaves does not depend on
\* the offset and repeat it found.
C14_Idempotent ==
    /\ bgCall.calls >= 2 /\ bgCall.args = bgCall.before.args =>
          bgCall.background = bgCall.before.background
    /\ bgCall.calls >= 1 /\ bgCall.before.background.present =>
          bgCall.background =
              maintainBgAspect(FreshBackground, bgCall.args[1],
                               bgCall.args[2], bgCall.args[3])

\* a second call with the arguments of the first, on a background that is
\* cropped
C14_Witness ==
    /\ bgCall.calls = 2
    /\ bgCall.args = bgCall.before.args
    /\ bgCall.background.present
    /\ bgCall.background.repeat = [x |-> <<1, 2>>, y |-> One]
    /\ bgCall.background.offset = [x |-> <<1, 4>>, y |-> Zero]

\* the strings of six hexadecimal digits of either case, with or without a
\* leading "#"
SixDigits(hex) ==
    /\ Len(hex) = 6
    /\ \A i \in 1..6 : \E k \in 1..16 :
           hex[i] = HexDigits[k] \/ hex[i] = UpperHexDigits[k]
WellFormed(hex) ==
    \/ SixDigits(hex)
    \/ Len(hex) = 7 /\ hex[1] = "#" /\ SixDigits(Tail(hex))

\* the byte two digits write, the first digit counting sixteen
ByteAt(hex, i) ==
    LET digits == IF Len(hex) = 7 THEN Tail(hex) ELSE hex
        v(c) == CHOOSE k \in 0..15 :
                    c = HexDigits[k + 1] \/ c = UpperHexDigits[k + 1]
    IN v(digits[2 * i - 1]) * 16 + v(digits[2 * i])

\* C15: for every string of six hexadecimal digits, of either case, with
\* or without a leading "#", hexToRgb returns r, g and b equal to the bytes
\* of the three digit pairs when forShaders is false, and each of them
\* divided by 255 when it is true.
C15_BytesOfDigitPairs ==
    hexCall.called /\ WellFormed(hexCall.hex) =>
        /\ ~hexCall.result.raised
        /\ ~hexCall.result.null
        /\ IF hexCall.forShaders
           THEN /\ hexCall.result.r = Ratio(ByteAt(hexCall.hex, 1), 255)
                /\ hexCall.result.g = Ratio(ByteAt(hexCall.hex, 2), 255)
                /\ hexCall.result.b = Ratio(ByteAt(hexCall.hex, 3), 255)
           ELSE /\ hexCall.result.r = ByteAt(hexCall.hex, 1)
                /\ hexCall.result.g = ByteAt(hexCall.hex, 2)
                /\ hexCall.result.b = ByteAt(hexCall.hex, 3)

\* "#FF8800" for shaders: 1, 136/255 = 8/15 and 0
C15_Witness ==
    /\ hexCall.called
    /\ hexCall.forShaders
    /\ hexCall.hex = <<"#", "F", "F", "8", "8", "0", "0">>
    /\ hexCall.result = [raised |-> FALSE, null |-> FALSE,
                         r |-> <<1, 1>>, g |-> <<8, 15>>, b |-> <<0, 1>>]

\* C16: for every other input (wrong length, a character that is no
\* hexadecimal digit, characters before or after, the empty string)
\* hexToRgb returns null, whatever forShaders is, and raises nothing.
C16_NullOtherwise ==
    hexCall.called /\ ~WellFormed(hexCall.hex) =>
        hexCall.result = NullResult

\* a string of seven digits and one with a letter outside a..f
C16_Witness ==
    /\ hexCall.called
    /\ hexCall.hex \in {<<"0", "F", "F", "8", "8", "0", "0">>,
                        <<"#", "F", "F", "0", "g", "0", "0">>}
    /\ hexCall.result = NullResult

\* the angle updateScene has turned the earth by since the start
EarthTurned == earthRot - InitialRotation

\* C17: whenever a patched shader handle is attached, uv_xOffset equals,
\* modulo 1, the earth's rotation accumulated by updateScene since the
\* start divided by 2 pi: after any interleaving of frames and compiles,
\* frames before the first compile and recompilations included.
C17_OffsetFollowsRotation ==
    shader.attached =>
        shader.uv_xOffset % TwoPi = EarthTurned % TwoPi

\* the position of the first occurrence of a piece a source contains
First(source, piece) ==
    CHOOSE i \in 1..Len(source) :
        source[i] = piece /\ \A j \in 1..(i - 1) : source[j] # piece

\* a source contains the three markers in the order common, roughness,
\* emissive: those are the first occurrences of each
MarkersInOrder(source) ==
    /\ \A m \in {CommonMarker, RoughnessMarker, EmissiveMarker} :
           \E i \in 1..Len(source) : source[i] = m
    /\ First(source, CommonMarker) < First(source, RoughnessMarker)
    /\ First(source, RoughnessMarker) < First(source, EmissiveMarker)

\* C18: for a fragment source with the three markers in order, the callback
\* returns the source with the first occurrence of each marker, and nothing
\* else, replaced: the declarations of tClouds and uv_xOffset follow a kept
\* "#include <common>", the roughness code stands for the roughness marker
\* and the emissive and cloud-shadow code for the emissive marker, after
\* it; the vertex source is unchanged; and every compilation of the same
\* source gives the same result.
C18_FirstOccurrencesPatched ==
    patchCall.fires > 0 /\ MarkersInOrder(patchCall.fragmentSource) =>
        LET src == patchCall.fragmentSource
            c == First(src, CommonMarker)
            r == First(src, RoughnessMarker)
            e == First(src, EmissiveMarker)
        IN /\ patchCall.shader.fragmentShader =
                  SubSeq(src, 1, c - 1)
                  \o <<CommonMarker, "uniform sampler2D tClouds;",
                       "uniform float uv_xOffset;">>
                  \o SubSeq(src, c + 1, r - 1)
                  \o RoughnessText
                  \o SubSeq(src, r + 1, e - 1)
                  \o EmissiveText
                  \o SubSeq(src, e + 1, Len(src))
           /\ patchCall.shader.vertexShader = patchCall.vertexSource
           /\ patchCall.fires > 1 => patchCall.shader = patchCall.previous

\* a second compilation of a source that has the emissive marker twice and
\* text between the markers, with a vertex source that has a marker too
C18_Witness ==
    /\ patchCall.fires = 2
    /\ patchCall.fragmentSource =
           <<CommonMarker, OtherText, RoughnessMarker, EmissiveMarker,
             EmissiveMarker>>
    /\ patchCall.vertexSource = <<CommonMarker, OtherText>>
    /\ patchCall.shader.fragmentShader[Len(patchCall.shader.fragmentShader)]
           = EmissiveMarker
    /\ patchCall.shader.vertexShader = <<CommonMarker, OtherText>>

\* the steps of the current frame after its i-th
StepsAfter(i) == {frameOps[j][1] : j \in (i + 1)..Len(frameOps)}

\* C19: with enableAnimation = true animate requests the next frame before
\* it updates and renders.  An exception raised by updateScene or by the
\* render skips the rest of that frame (no update or render after it), but
\* the next frame is already requested and the loop goes on.  Only an
\* exception of the first frame reaches the catch of runApp's chain, and
\* then the diagnostics step is skipped; the exception of a later frame
\* reaches neither.
C19_ThrowingFrameKeepsLoop ==
    /\ framePc = "thrown" => pendingFrames = 1
    /\ frameCount >= 1 /\ framePc = "idle" => pendingFrames = 1
    /\ \A i \in 1..Len(frameOps) :
           frameOps[i][1] = "throw" =>
               StepsAfter(i) \cap {"updateScene", "render", "throw"} = {}
    /\ initPromise = "fulfilled" =>
           /\ chainPc \in {"catch", "logged"} <=>
                  1 \in thrown /\ (frameCount > 1 \/ framePc = "idle")
           /\ errorLog = (IF chainPc = "logged" THEN 1 ELSE 0)
           /\ 1 \in thrown => infoLog = 0
    /\ uncaught = Cardinality({f \in thrown \ {1} :
                                  f < frameCount \/ framePc # "thrown"})

\* the first two frames raised, one in updateScene and one in the render;
\* the first was logged by the catch and the diagnostics never ran; the
\* third frame has updated and rendered
C19_Witness ==
    /\ thrown = {1, 2}
    /\ errorLog = 1
    /\ infoLog = 0
    /\ uncaught = 1
    /\ frameCount = 3
    /\ framePc = "idle"
    /\ Len(frameOps) >= 3
    /\ frameOps[2][1] = "updateScene"
    /\ frameOps[3][1] = "render"

====
